---- MODULE Spec2Model ----
(***************************************************************************)
(* A model of ml2p.core: the S3URL path resolver, the SageMakerEnv         *)
(* environment reader, and the ModelTrainer / ModelPredictor invocation    *)
(* pipeline with its S3 invocation recorder.                               *)
(*                                                                         *)
(* Python values are represented as follows.                               *)
(*   - str that the code only passes around: a TLA+ string.                *)
(*   - str that the code takes apart (URLs, S3 keys): a sequence of        *)
(*     tokens, each a one-character string or an opaque slash-free atom.   *)
(*   - Optional[T]: the empty set for None, the singleton {v} for v.       *)
(*   - dict: a function whose DOMAIN is the set of keys present.           *)
(***************************************************************************)
EXTENDS Integers, Sequences, FiniteSets, TLC

VARIABLES
    s3folder,     \* S3URL spec: the URL string handed to S3URL(...)
    suffix,       \* S3URL spec: the suffix handed to path(...) / url(...)
    s3obj,        \* S3URL spec: the constructed S3URL object
    s3_out,       \* S3URL spec: the result of the last S3URL method call
    os_environ,   \* the process environment (os.environ)
    hp_file,      \* <ml_folder>/input/config/hyperparameters.json
    rc_file,      \* <ml_folder>/input/config/resourceconfig.json
    env,          \* the SageMakerEnv object (or the failed construction)
    env_out,      \* the result of the last SageMakerEnv accessor call
    predictor,    \* "base" (ModelPredictor) or "sub" (a sub-class with result)
    clock,        \* the UTC clock read by datetime.datetime.utcnow()
    s3_log,       \* every put_object call made on the S3 client, in order
    call,         \* the invoke / batch_invoke / result / train call last made
    stats,        \* operations started, calls that raised, inputs of returned
                  \* calls, identifiers drawn from uuid.uuid4()
    lifecycle,    \* how often the caller has run setup() and teardown()
    failure_file  \* <ml_folder>/output/failure

s3vars == <<s3folder, suffix, s3obj, s3_out>>
envvars == <<os_environ, hp_file, rc_file, env, env_out, failure_file>>
predvars == <<predictor, clock, s3_log, call, stats, lifecycle>>
vars == <<s3folder, suffix, s3obj, s3_out, os_environ, hp_file, rc_file, env,
          env_out, predictor, clock, s3_log, call, stats, lifecycle,
          failure_file>>

----------------------------------------------------------------------------
(* Bounds of the model.                                                    *)

MaxBodyLen == 4      \* characters of a URL after its head
MaxSuffixLen == 3    \* characters of a suffix handed to S3URL.path
MaxCalls == 2        \* predictor / trainer calls made in one run
MaxBatch == 2        \* inputs in one batch_invoke
MaxClock == 1        \* ticks of the UTC clock

----------------------------------------------------------------------------
(* Python values.                                                          *)

None == {}
Some(v) == {v}
Get(o) == CHOOSE v \in o : TRUE

\* dict.get(key, default), the result as an Optional when default is None
DictGet(d, k) == IF k \in DOMAIN d THEN Some(d[k]) ELSE None

EmptyDict == <<>>

\* all sequences over S of length at most n
SeqsUpTo(S, n) == UNION {[1..k -> S] : k \in 0..n}

----------------------------------------------------------------------------
(* str methods used by S3URL.                                              *)

RECURSIVE LStrip(_, _)
\* str.lstrip(c)
LStrip(s, c) ==
    IF s # <<>> /\ Head(s) = c THEN LStrip(Tail(s), c) ELSE s

RECURSIVE RStrip(_, _)
\* str.rstrip(c)
RStrip(s, c) ==
    IF s # <<>> /\ s[Len(s)] = c THEN RStrip(SubSeq(s, 1, Len(s) - 1), c) ELSE s

\* str.strip(c)
Strip(s, c) == RStrip(LStrip(s, c), c)

\* str.find(c, from): the first index >= from holding c, 0 when there is none
\* (indices are 1-based here)
Find(s, c, from) ==
    LET hits == {i \in from..Len(s) : s[i] = c}
    IN IF hits = {} THEN 0 ELSE CHOOSE i \in hits : \A j \in hits : i <= j

----------------------------------------------------------------------------
(* urllib.parse.urlparse, as far as S3URL uses it: scheme, netloc, path.   *)
(* URLs here hold no '?', '#', ';', digits or brackets.                    *)

Letters == {"s", "b", "x"}
SchemeChars == Letters \cup {"+", "-", "."}

urlparse(url) ==
    LET i == Find(url, ":", 1)
        hasScheme == /\ i > 1
                     /\ url[1] \in Letters
                     /\ \A k \in 1..(i - 1) : url[k] \in SchemeChars
        scheme == IF hasScheme THEN SubSeq(url, 1, i - 1) ELSE <<>>
        rest == IF hasScheme THEN SubSeq(url, i + 1, Len(url)) ELSE url
        hasNetloc == Len(rest) >= 2 /\ rest[1] = "/" /\ rest[2] = "/"
        slash == Find(rest, "/", 3)
        delim == IF slash = 0 THEN Len(rest) + 1 ELSE slash
    IN [scheme |-> scheme,
        netloc |-> IF hasNetloc THEN SubSeq(rest, 3, delim - 1) ELSE <<>>,
        path |-> IF hasNetloc THEN SubSeq(rest, delim, Len(rest)) ELSE rest]

----------------------------------------------------------------------------
(* class S3URL                                                             *)

\* S3URL.__init__
S3URL(folder) ==
    LET u == urlparse(folder)
    IN [s3url |-> u, s3root |-> Strip(u.path, "/")]

\* S3URL.bucket
S3Bucket(self) == self.s3url.netloc

\* a plausible slip: the suffix is joined without dropping its leading slashes
S3Path_keep_suffix_slashes(self, sfx) ==
    LET path == self.s3root \o <<"/">> \o sfx
    IN LStrip(path, "/")

\* S3URL.path
S3Path(self, sfx) ==
    LET path == self.s3root \o <<"/">> \o LStrip(sfx, "/")
    IN LStrip(path, "/")

\* S3URL.url
S3Url(self, sfx) ==
    <<"s", "3", ":", "/", "/">> \o self.s3url.netloc \o <<"/">> \o S3Path(self, sfx)

----------------------------------------------------------------------------
(* The specification of S3URL as a pure function: a URL and a suffix are   *)
(* drawn, the object is constructed, and its methods are called.           *)

UrlHeads == {<<>>, <<"s", ":">>, <<"/", "/">>, <<"s", ":", "/", "/">>}
Urls == {h \o b : h \in UrlHeads, b \in SeqsUpTo({"b", "/"}, MaxBodyLen)}
Suffixes == SeqsUpTo({"x", "/"}, MaxSuffixLen)

NoOut == [op |-> "none"]

\* a call on a predictor or trainer: the inputs it was made with, the
\* predictions computed, the index of the next input to record, the length of
\* the S3 log when it started, the invocation ids drawn so far, and how it
\* ended (a response returned or an error raised)
NoCall ==
    [op |-> "none", status |-> "none", data |-> <<>>, predictions |-> <<>>,
     next |-> 1, start |-> 0, ids |-> <<>>, response |-> None, error |-> None]

\* the predictor and environment variables at rest
EnvIdle ==
    /\ os_environ = EmptyDict
    /\ hp_file = [state |-> "missing"]
    /\ rc_file = [state |-> "missing"]
    /\ env = [status |-> "new"]
    /\ env_out = NoOut
    /\ failure_file = [state |-> "absent"]

PredIdle ==
    /\ predictor = "base"
    /\ clock = 0
    /\ s3_log = <<>>
    /\ call = NoCall
    /\ stats = [calls |-> 0, raised |-> 0, inputs |-> 0, uuids |-> 0]
    /\ lifecycle = [setups |-> 0, teardowns |-> 0]

S3Init ==
    /\ s3folder \in Urls
    /\ suffix \in Suffixes
    /\ s3obj = S3URL(s3folder)
    /\ s3_out = NoOut
    /\ EnvIdle
    /\ PredIdle

CallBucket ==
    /\ s3_out' = [op |-> "bucket", value |-> S3Bucket(s3obj)]
    /\ UNCHANGED <<s3folder, suffix, s3obj, envvars, predvars>>

CallPath ==
    /\ s3_out' = [op |-> "path", value |-> S3Path(s3obj, suffix)]
    /\ UNCHANGED <<s3folder, suffix, s3obj, envvars, predvars>>

CallUrl ==
    /\ s3_out' = [op |-> "url", value |-> S3Url(s3obj, suffix)]
    /\ UNCHANGED <<s3folder, suffix, s3obj, envvars, predvars>>

S3Next == CallBucket \/ CallPath \/ CallUrl

SpecS3URL == S3Init /\ [][S3Next]_vars

\* the URL holds an authority: an optional scheme and ':', then '//' at a+1, a+2
HasAuthority(url, a) ==
    /\ a + 2 <= Len(url)
    /\ url[a + 1] = "/" /\ url[a + 2] = "/"
    /\ \/ a = 0
       \/ /\ a >= 2
          /\ url[a] = ":"
          /\ \A k \in 1..(a - 1) : url[k] \notin {":", "/"}

\* h is the host of url: the slash-free text that follows the '//' of the
\* authority, up to the next '/' or the end; empty when url has no authority
IsHostOf(h, url) ==
    IF \E a \in 0..Len(url) : HasAuthority(url, a)
    THEN \E a \in 0..Len(url), b \in 0..Len(url) :
            /\ HasAuthority(url, a)
            /\ b >= a + 2
            /\ h = SubSeq(url, a + 3, b)
            /\ \A k \in (a + 3)..b : url[k] # "/"
            /\ b = Len(url) \/ url[b + 1] = "/"
    ELSE h = <<>>

\* p is root and sfx joined by exactly one '/', the leading slashes of sfx dropped
JoinedByOneSlash(p, root, sfx) ==
    \E j \in 0..Len(sfx) :
        /\ \A k \in 1..j : sfx[k] = "/"
        /\ j = Len(sfx) \/ sfx[j + 1] # "/"
        /\ p = root \o <<"/">> \o SubSeq(sfx, j + 1, Len(sfx))

----------------------------------------------------------------------------
(* hyperparameters.decode: the platform hands every hyperparameter over as *)
(* a JSON-encoded string under a flat, dotted key; decode parses each      *)
(* value and rebuilds the nested mapping.  A flat key is the sequence of   *)
(* its dotted segments, an encoded value the record [json |-> v].          *)

JsonString(v) == [json |-> v]

hyperparameters_decode(flat) ==
    LET tops == {k[1] : k \in DOMAIN flat}
        subs(t) == {k[2] : k \in {q \in DOMAIN flat : Len(q) = 2 /\ q[1] = t}}
    IN [t \in tops |->
            IF <<t>> \in DOMAIN flat
            THEN flat[<<t>>].json
            ELSE [s \in subs(t) |-> flat[<<t, s>>].json]]

----------------------------------------------------------------------------
(* class SageMakerEnv                                                      *)

TRAIN == "train"
SERVE == "serve"

JSONDecodeError == [type |-> "JSONDecodeError"]

Returned(v) == [ok |-> TRUE, value |-> v]
Raised(e) == [ok |-> FALSE, error |-> e]

\* a plausible slip: the file is opened without the exists() check
hyperparameters_no_exists_check(hp) ==
    IF hp.state = "missing" THEN Raised([type |-> "FileNotFoundError"])
    ELSE IF hp.state = "malformed" THEN Raised(JSONDecodeError)
    ELSE Returned(hyperparameters_decode(hp.json))

\* SageMakerEnv.hyperparameters, on the file at input/config/hyperparameters.json
hyperparameters(hp) ==
    IF hp.state = "missing" THEN Returned(EmptyDict)
    ELSE IF hp.state = "malformed" THEN Raised(JSONDecodeError)
    ELSE Returned(hyperparameters_decode(hp.json))

\* SageMakerEnv.resourceconfig, on the file at input/config/resourceconfig.json
resourceconfig(rc) ==
    IF rc.state = "missing" THEN Returned(EmptyDict)
    ELSE IF rc.state = "malformed" THEN Raised(JSONDecodeError)
    ELSE Returned(rc.json)

\* the tail of SageMakerEnv.__init__: the fields taken from the settings mapping
EnvFromSettings(fields, environ) ==
    [status |-> "ok",
     env_type |-> fields.env_type,
     training_job_name |-> fields.training_job_name,
     model_version |-> fields.model_version,
     record_invokes |-> fields.record_invokes,
     project |-> DictGet(environ, "ML2P_PROJECT"),
     model_cls |-> DictGet(environ, "ML2P_MODEL_CLS"),
     s3 |-> IF "ML2P_S3_URL" \in DOMAIN environ
            THEN Some(S3URL(environ["ML2P_S3_URL"]))
            ELSE None]

\* a plausible slip: the flag is compared without regard to case
ServeFields_any_case(osenv) ==
    [env_type |-> SERVE,
     training_job_name |-> None,
     model_version |-> DictGet(osenv, "ML2P_MODEL_VERSION"),
     record_invokes |->
        Some((IF "ML2P_RECORD_INVOKES" \in DOMAIN osenv
              THEN osenv["ML2P_RECORD_INVOKES"] ELSE "false")
                \in {"true", "True"})]

\* the serving branch of SageMakerEnv.__init__
ServeFields(osenv) ==
    [env_type |-> SERVE,
     training_job_name |-> None,
     model_version |-> DictGet(osenv, "ML2P_MODEL_VERSION"),
     record_invokes |->
        Some((IF "ML2P_RECORD_INVOKES" \in DOMAIN osenv
              THEN osenv["ML2P_RECORD_INVOKES"] ELSE "false") = "true")]

\* a plausible slip: the model version is read in the training branch too
TrainFields_reads_model_version(osenv) ==
    [env_type |-> TRAIN,
     training_job_name |-> DictGet(osenv, "TRAINING_JOB_NAME"),
     model_version |-> DictGet(osenv, "ML2P_MODEL_VERSION"),
     record_invokes |-> None]

\* the training branch of SageMakerEnv.__init__
TrainFields(osenv) ==
    [env_type |-> TRAIN,
     training_job_name |-> DictGet(osenv, "TRAINING_JOB_NAME"),
     model_version |-> None,
     record_invokes |-> None]

\* a plausible slip: the settings are read from os.environ in both modes
SageMakerEnv_settings_from_os(osenv, hp) ==
    IF "TRAINING_JOB_NAME" \in DOMAIN osenv
    THEN LET h == hyperparameters(hp)
         IN IF ~h.ok THEN [status |-> "error", error |-> h.error]
            ELSE EnvFromSettings(TrainFields(osenv), osenv)
    ELSE EnvFromSettings(ServeFields(osenv), osenv)

\* SageMakerEnv.__init__
SageMakerEnv(osenv, hp) ==
    IF "TRAINING_JOB_NAME" \in DOMAIN osenv
    THEN LET h == hyperparameters(hp)
         IN IF ~h.ok THEN [status |-> "error", error |-> h.error]
            ELSE EnvFromSettings(TrainFields(osenv),
                    IF "ML2P_ENV" \in DOMAIN h.value
                    THEN h.value["ML2P_ENV"] ELSE EmptyDict)
    ELSE EnvFromSettings(ServeFields(osenv), osenv)


----------------------------------------------------------------------------
(* The specification of the environment reader: a process environment and  *)
(* the two config files are drawn, the environment is constructed, and its *)
(* accessors are called.                                                   *)

\* a dict from a record of Optionals: the keys whose value is not None
MkDict(opts) ==
    [k \in {q \in DOMAIN opts : opts[q] # None} |-> Get(opts[k])]

S3UrlA == <<"s", ":", "/", "/", "b", "/", "x", "/">>
S3UrlB == <<"s", ":", "/", "/", "b">>

OsEnvirons ==
    {MkDict(o) : o \in
        [TRAINING_JOB_NAME : {None, Some("job-1"), Some("")},
         ML2P_MODEL_VERSION : {None, Some("v1")},
         ML2P_RECORD_INVOKES : {None, Some("true"), Some("True"), Some("false")},
         ML2P_PROJECT : {None, Some("proj")},
         ML2P_MODEL_CLS : {None, Some("pkg.Model")},
         ML2P_S3_URL : {None, Some(S3UrlA)}]}

HpKey(name) == <<"ML2P_ENV", name>>

\* the flat, encoded contents of a well-formed hyperparameters.json
HpJsons ==
    {[k \in {q \in {HpKey("ML2P_PROJECT"), HpKey("ML2P_MODEL_CLS"),
                    HpKey("ML2P_S3_URL"), HpKey("ML2P_RECORD_INVOKES"),
                    <<"param">>} : o[q[Len(q)]] # None}
        |-> JsonString(Get(o[k[Len(k)]]))] : o \in
        [ML2P_PROJECT : {None, Some("hp-proj")},
         ML2P_MODEL_CLS : {None, Some("hp.Model")},
         ML2P_S3_URL : {None, Some(S3UrlB)},
         ML2P_RECORD_INVOKES : {None, Some("true")},
         param : {None, Some("value")}]}

HpFiles ==
    {[state |-> "missing"], [state |-> "malformed"]}
        \cup {[state |-> "ok", json |-> j] : j \in HpJsons}

RcFiles ==
    {[state |-> "missing"], [state |-> "malformed"],
     [state |-> "ok", json |-> [config |-> "value"]]}

S3Idle ==
    /\ s3folder = <<>>
    /\ suffix = <<>>
    /\ s3obj = S3URL(<<>>)
    /\ s3_out = NoOut

EnvInit ==
    /\ os_environ \in OsEnvirons
    /\ hp_file \in HpFiles
    /\ rc_file \in RcFiles
    /\ env = [status |-> "new"]
    /\ env_out = NoOut
    /\ failure_file = [state |-> "absent"]
    /\ S3Idle
    /\ PredIdle

\* env = SageMakerEnv(ml_folder)
Construct ==
    /\ env.status = "new"
    /\ env' = SageMakerEnv(os_environ, hp_file)
    /\ UNCHANGED <<os_environ, hp_file, rc_file, env_out, failure_file,
                    s3vars, predvars>>

\* one more operation of the run is started (a run makes at most MaxCalls)
CanStart == stats.calls < MaxCalls

Started == stats' = [stats EXCEPT !.calls = @ + 1]

\* a plausible slip: hyperparameters() refreshes the fields of the environment
\* from the settings as they are now
CallHyperparameters_reloads_env ==
    /\ env.status = "ok"
    /\ CanStart /\ Started
    /\ env_out' = [op |-> "hyperparameters", res |-> hyperparameters(hp_file)]
    /\ env' = LET e == SageMakerEnv(os_environ, hp_file)
              IN IF e.status = "ok" THEN e ELSE env
    /\ UNCHANGED <<os_environ, hp_file, rc_file, failure_file, s3vars,
                    predictor, clock, s3_log, call, lifecycle>>

\* env.hyperparameters()
CallHyperparameters ==
    /\ env.status = "ok"
    /\ CanStart /\ Started
    /\ env_out' = [op |-> "hyperparameters", res |-> hyperparameters(hp_file)]
    /\ UNCHANGED <<os_environ, hp_file, rc_file, env, failure_file, s3vars,
                    predictor, clock, s3_log, call, lifecycle>>

\* env.resourceconfig()
CallResourceconfig ==
    /\ env.status = "ok"
    /\ CanStart /\ Started
    /\ env_out' = [op |-> "resourceconfig", res |-> resourceconfig(rc_file)]
    /\ UNCHANGED <<os_environ, hp_file, rc_file, env, failure_file, s3vars,
                    predictor, clock, s3_log, call, lifecycle>>

EnvNext == Construct \/ CallHyperparameters \/ CallResourceconfig

SpecEnv == EnvInit /\ [][EnvNext]_vars


\* C4: a constructed environment is in TRAIN mode exactly when the variable
\* TRAINING_JOB_NAME is present (then training_job_name is its value and
\* model_version is None, whatever ML2P_MODEL_VERSION holds) and in SERVE mode
\* otherwise (then training_job_name is None); training_job_name and
\* model_version are never both set.
C4_ExactlyOneMode ==
    env.status = "ok" =>
        /\ env.env_type \in {TRAIN, SERVE}
        /\ env.env_type = TRAIN <=> "TRAINING_JOB_NAME" \in DOMAIN os_environ
        /\ env.env_type = TRAIN =>
            /\ env.training_job_name = Some(os_environ["TRAINING_JOB_NAME"])
            /\ env.model_version = None
        /\ env.env_type = SERVE => env.training_job_name = None
        /\ ~(env.training_job_name # None /\ env.model_version # None)

\* C4 witness: a TRAIN environment built while ML2P_MODEL_VERSION is set
C4_Witness ==
    /\ env.status = "ok"
    /\ env.env_type = TRAIN
    /\ "ML2P_MODEL_VERSION" \in DOMAIN os_environ

\* the setting `name` of the mode's settings mapping, read off the inputs: the
\* ML2P_ENV entry of the hyperparameters file in TRAIN mode, the process
\* variable in SERVE mode
Setting(name) ==
    IF "TRAINING_JOB_NAME" \in DOMAIN os_environ
    THEN IF hp_file.state = "ok" /\ HpKey(name) \in DOMAIN hp_file.json
         THEN Some(hp_file.json[HpKey(name)].json)
         ELSE None
    ELSE DictGet(os_environ, name)

\* C5: project, model_cls and s3 come from the mode's settings mapping only
\* (TRAIN: the ML2P_ENV sub-mapping of the hyperparameters file, empty when the
\* file or the key is missing; SERVE: the process environment), and s3 is set
\* exactly when ML2P_S3_URL is in that mapping.
C5_FieldsFromModeSettings ==
    env.status = "ok" =>
        /\ env.project = Setting("ML2P_PROJECT")
        /\ env.model_cls = Setting("ML2P_MODEL_CLS")
        /\ env.s3 # None <=> Setting("ML2P_S3_URL") # None
        /\ env.s3 # None => env.s3 = Some(S3URL(Get(Setting("ML2P_S3_URL"))))

\* C5 witness: a TRAIN environment whose process variables name a project and
\* an S3 URL that the hyperparameters file does not
C5_Witness ==
    /\ env.status = "ok"
    /\ env.env_type = TRAIN
    /\ {"ML2P_PROJECT", "ML2P_S3_URL"} \subseteq DOMAIN os_environ
    /\ hp_file.state = "ok"
    /\ HpKey("ML2P_MODEL_CLS") \in DOMAIN hp_file.json
    /\ HpKey("ML2P_PROJECT") \notin DOMAIN hp_file.json
    /\ env.project = None /\ env.s3 = None /\ env.model_cls # None

\* C6 as stated: record_invokes is a boolean, true exactly in SERVE mode with
\* ML2P_RECORD_INVOKES = "true", and false in every other case.
C6_Original_RecordInvokesIsBoolean ==
    env.status = "ok" =>
        env.record_invokes =
            Some(/\ "TRAINING_JOB_NAME" \notin DOMAIN os_environ
                 /\ DictGet(os_environ, "ML2P_RECORD_INVOKES") = Some("true"))

\* C6 as amended: in SERVE mode record_invokes is a boolean, true exactly when
\* ML2P_RECORD_INVOKES is the string "true"; in TRAIN mode it is None (not the
\* boolean false), whatever the variable or the hyperparameters file holds.
C6_RecordInvokes ==
    env.status = "ok" =>
        /\ env.env_type = SERVE =>
            env.record_invokes =
                Some(DictGet(os_environ, "ML2P_RECORD_INVOKES") = Some("true"))
        /\ env.env_type = TRAIN => env.record_invokes = None
        /\ env.record_invokes = Some(TRUE) <=>
            /\ "TRAINING_JOB_NAME" \notin DOMAIN os_environ
            /\ DictGet(os_environ, "ML2P_RECORD_INVOKES") = Some("true")

\* C6 witness: a SERVE environment built with ML2P_RECORD_INVOKES = "True"
C6_Witness ==
    /\ env.status = "ok"
    /\ env.env_type = SERVE
    /\ DictGet(os_environ, "ML2P_RECORD_INVOKES") = Some("True")
    /\ env.record_invokes = Some(FALSE)

\* C10: hyperparameters() and resourceconfig() return an empty mapping when
\* their file does not exist and fail with the parse error when it is
\* malformed; a TRAIN environment built without a hyperparameters file is
\* built, with project, model_cls and s3 all None, and one built on a
\* malformed file fails with the parse error.
C10_MissingFileIsEmptyMapping ==
    /\ env_out.op = "hyperparameters" =>
        /\ hp_file.state = "missing" =>
            env_out.res.ok /\ DOMAIN env_out.res.value = {}
        /\ hp_file.state = "malformed" =>
            ~env_out.res.ok /\ env_out.res.error = JSONDecodeError
    /\ env_out.op = "resourceconfig" =>
        /\ rc_file.state = "missing" =>
            env_out.res.ok /\ DOMAIN env_out.res.value = {}
        /\ rc_file.state = "malformed" =>
            ~env_out.res.ok /\ env_out.res.error = JSONDecodeError
    /\ (env.status # "new" /\ "TRAINING_JOB_NAME" \in DOMAIN os_environ) =>
        /\ hp_file.state = "missing" =>
            /\ env.status = "ok"
            /\ env.project = None /\ env.model_cls = None /\ env.s3 = None
        /\ hp_file.state = "malformed" =>
            env.status = "error" /\ env.error = JSONDecodeError

\* C10 witness: hyperparameters() called on a TRAIN environment that was built
\* with no hyperparameters file
C10_Witness ==
    /\ env.status = "ok"
    /\ env.env_type = TRAIN
    /\ hp_file.state = "missing"
    /\ env_out.op = "hyperparameters"
    /\ env_out.res.ok


----------------------------------------------------------------------------
(* class ModelTrainer, class ModelPredictor                                *)

NotImplementedTrain ==
    [type |-> "NotImplementedError", msg |-> "Sub-classes should implement .train()"]
NotImplementedResult ==
    [type |-> "NotImplementedError",
     msg |-> "Sub-classes should implement .result(...)"]
\* self.env.s3 is None: 'NoneType' object has no attribute 'path'
AttributeError == [type |-> "AttributeError", msg |-> "NoneType has no attribute path"]
\* the error put_object raises when the write fails
ClientError == [type |-> "ClientError", msg |-> "PutObject failed"]

ml2p_version == "ml2p-version"

\* datetime.timestamp(): the POSIX seconds of the clock reading t
Timestamp(t) == 1548936000 + t

\* datetime.isoformat(): the ISO-8601 text of the clock reading t
IsoFormat(t) == "2019-01-31T12:00:0" \o ToString(t)

\* "{}".format(v) of an Optional[str]
Format(o) == IF o = None THEN "None" ELSE Get(o)

\* ModelTrainer.train
train == Raised(NotImplementedTrain)

\* ModelPredictor.metadata, the clock reading t
metadata(e, t) ==
    [model_version |-> e.model_version,
     ml2p_version |-> ml2p_version,
     timestamp |-> Timestamp(t)]

\* the result method of a sub-class (MyPredictor of the tests)
MyResult(d) == [probability |-> 5, input |-> d.input]

\* a plausible slip: the base method returns an empty result
result_base_returns(kind, d) ==
    IF kind = "base" THEN Returned([probability |-> 0, input |-> 0])
    ELSE Returned(MyResult(d))

\* ModelPredictor.result, of the base class or of the sub-class
result(kind, d) ==
    IF kind = "base" THEN Raised(NotImplementedResult) ELSE Returned(MyResult(d))

\* ModelPredictor.batch_result: result over the inputs in order, the first
\* error propagating
batch_result(kind, data) ==
    LET rs == [i \in DOMAIN data |-> result(kind, data[i])]
        bad == {i \in DOMAIN data : ~rs[i].ok}
    IN IF bad # {}
       THEN Raised(rs[CHOOSE i \in bad : \A j \in bad : i <= j].error)
       ELSE Returned([i \in DOMAIN data |-> rs[i].value])

\* a plausible slip: the results are paired with the metadata in reverse order
BatchPredictions_reversed(md, results) ==
    [i \in DOMAIN results |->
        [metadata |-> md, result |-> results[Len(results) + 1 - i]]]

\* ModelPredictor.batch_invoke: the list of predictions
BatchPredictions(md, results) ==
    [i \in DOMAIN results |-> [metadata |-> md, result |-> results[i]]]

\* a plausible slip: recording is skipped when no S3 location is configured
ShouldRecord_needs_s3(e) == e.record_invokes = Some(TRUE) /\ e.s3 # None

\* a plausible slip: the record_invokes flag is not consulted
ShouldRecord_always(e) == TRUE

\* `if self.env.record_invokes:` (None and False are falsy)
ShouldRecord(e) == e.record_invokes = Some(TRUE)

\* ModelPredictor.record_invoke_id: an ordered dict, as its list of items
record_invoke_id(t, u) == <<<<"ts", IsoFormat(t)>>, <<"uuid", u>>>>

RECURSIVE Join(_, _)
\* sep.join(parts)
Join(sep, parts) ==
    IF parts = <<>> THEN <<>>
    ELSE IF Len(parts) = 1 THEN parts[1]
    ELSE parts[1] \o sep \o Join(sep, Tail(parts))

\* record_filename of ModelPredictor.record_invoke
record_filename(invoke_id) ==
    Join(<<"--">>, [i \in DOMAIN invoke_id |->
                        <<invoke_id[i][1], "-", invoke_id[i][2]>>])
        \o <<".json">>


----------------------------------------------------------------------------
(* json.dumps of an invocation record, as its sequence of JSON tokens.     *)

JsonStr(s) == "\"" \o s \o "\""
JsonOptStr(o) == IF o = None THEN "null" ELSE JsonStr(Get(o))
JsonInt(n) == ToString(n)

DumpsDatum(d) == <<"{", JsonStr("input"), ":", JsonInt(d.input), "}">>

DumpsResult(r) ==
    <<"{", JsonStr("probability"), ":", JsonInt(r.probability), ",",
      JsonStr("input"), ":", JsonInt(r.input), "}">>

DumpsMetadata(m) ==
    <<"{", JsonStr("model_version"), ":", JsonOptStr(m.model_version), ",",
      JsonStr("ml2p_version"), ":", JsonStr(m.ml2p_version), ",",
      JsonStr("timestamp"), ":", JsonInt(m.timestamp), "}">>

DumpsPrediction(p) ==
    <<"{", JsonStr("metadata"), ":">> \o DumpsMetadata(p.metadata)
        \o <<",", JsonStr("result"), ":">> \o DumpsResult(p.result) \o <<"}">>

\* json.dumps(record).encode("utf-8")
json_dumps(record) ==
    <<"{", JsonStr("input"), ":">> \o DumpsDatum(record.input)
        \o <<",", JsonStr("result"), ":">> \o DumpsPrediction(record.result)
        \o <<"}">>

\* a plausible slip: only the user's result is stored, without the metadata
PutRequest_result_only(e, datum, prediction, invoke_id) ==
    [Bucket |-> S3Bucket(Get(e.s3)),
     Key |-> S3Path(Get(e.s3),
                <<"/", "predictions", "/", Format(e.model_version), "/">>
                    \o record_filename(invoke_id)),
     Body |-> <<"{", JsonStr("input"), ":">> \o DumpsDatum(datum)
                \o <<",", JsonStr("result"), ":">>
                \o DumpsResult(prediction.result) \o <<"}">>]

\* ModelPredictor.record_invoke: the arguments of the put_object call
PutRequest(e, datum, prediction, invoke_id) ==
    [Bucket |-> S3Bucket(Get(e.s3)),
     Key |-> S3Path(Get(e.s3),
                <<"/", "predictions", "/", Format(e.model_version), "/">>
                    \o record_filename(invoke_id)),
     Body |-> json_dumps([input |-> datum, result |-> prediction])]

----------------------------------------------------------------------------
(* The specification of the predictor pipeline: an environment is built, a *)
(* base or sub-classed predictor is created on it, and invoke,             *)
(* batch_invoke, result and train are called.  invoke and batch_invoke     *)
(* with recording enabled run in steps: the start (metadata and results),  *)
(* one record_invoke per input, and the return.                            *)

Data == {[input |-> 1], [input |-> 2]}

\* the batches handed to batch_invoke: of every length up to MaxBatch, the
\* two inputs alternating, starting with either
Batches ==
    {[i \in 1..k |-> [input |-> ((first + i) % 2) + 1]] :
        first \in {0, 1}, k \in 0..MaxBatch}

\* str(uuid.uuid4()): a fresh identifier, the n-th one drawn
uuid4(n) == "uuid4-" \o ToString(n)

\* the readings datetime.utcnow() may give now: time does not run backwards
Now == {t \in clock..(clock + 1) : t <= MaxClock}

PredOsEnvirons ==
    {MkDict(o) : o \in
        [TRAINING_JOB_NAME : {None, Some("job-1")},
         ML2P_MODEL_VERSION : {None, Some("v1")},
         ML2P_RECORD_INVOKES : {None, Some("true"), Some("false")},
         ML2P_S3_URL : {None, Some(S3UrlA)}]}

Init ==
    /\ os_environ \in PredOsEnvirons
    /\ hp_file = [state |-> "missing"]
    /\ rc_file = [state |-> "missing"]
    /\ env = SageMakerEnv(os_environ, hp_file)
    /\ env_out = NoOut
    /\ predictor \in {"base", "sub"}
    /\ clock = 0
    /\ s3_log = <<>>
    /\ call = NoCall
    /\ stats = [calls |-> 0, raised |-> 0, inputs |-> 0, uuids |-> 0]
    /\ lifecycle = [setups |-> 0, teardowns |-> 0]
    /\ failure_file = [state |-> "absent"]
    /\ S3Idle

\* a plausible slip: calls are refused unless setup() has run and teardown()
\* has not
CanCall_after_setup ==
    /\ call.status # "running" /\ stats.calls < MaxCalls
    /\ lifecycle.setups > 0 /\ lifecycle.teardowns = 0

CanCall == call.status # "running" /\ stats.calls < MaxCalls

\* the call ended by raising error e
CallRaised(c, e) == [c EXCEPT !.status = "raised", !.error = Some(e)]

\* the call ended by returning response v
CallReturned(c, v) == [c EXCEPT !.status = "returned", !.response = Some(v)]

StartedCall(op, data) ==
    [NoCall EXCEPT !.op = op, !.status = "running", !.data = data,
                   !.start = Len(s3_log)]

Count(c) ==
    [stats EXCEPT
     !.calls = stats.calls + (IF call.status = "running" THEN 0 ELSE 1),
     !.raised = stats.raised + (IF c.status = "raised" THEN 1 ELSE 0),
     !.inputs = stats.inputs
                + (IF c.status = "returned" /\ c.op \in {"invoke", "batch_invoke"}
                   THEN Len(c.data) ELSE 0)]

\* ModelPredictor.invoke, up to the first record_invoke
InvokeStart(d) ==
    /\ CanCall
    /\ \E t \in Now :
        LET c == StartedCall("invoke", <<d>>)
            md == metadata(env, t)
            r == result(predictor, d)
            prediction == [metadata |-> md, result |-> r.value]
            c2 == IF ~r.ok THEN CallRaised(c, r.error)
                  ELSE IF ShouldRecord(env)
                       THEN [c EXCEPT !.predictions = <<prediction>>]
                       ELSE CallReturned(
                                [c EXCEPT !.predictions = <<prediction>>],
                                prediction)
        IN /\ clock' = t
           /\ call' = c2
           /\ stats' = Count(c2)
    /\ UNCHANGED <<predictor, s3_log, lifecycle, envvars, s3vars>>

\* ModelPredictor.batch_invoke, up to the first record_invoke
BatchInvokeStart(data) ==
    /\ CanCall
    /\ \E t \in Now :
        LET c == StartedCall("batch_invoke", data)
            md == metadata(env, t)
            rs == batch_result(predictor, data)
            predictions == BatchPredictions(md, rs.value)
            c2 == IF ~rs.ok THEN CallRaised(c, rs.error)
                  ELSE IF ShouldRecord(env)
                       THEN [c EXCEPT !.predictions = predictions]
                       ELSE CallReturned(
                                [c EXCEPT !.predictions = predictions],
                                [predictions |-> predictions])
        IN /\ clock' = t
           /\ call' = c2
           /\ stats' = Count(c2)
    /\ UNCHANGED <<predictor, s3_log, lifecycle, envvars, s3vars>>

\* a plausible slip: a failed write is swallowed and the call carries on
AfterPut_swallow(c, ok, invoke_id) ==
    [c EXCEPT !.next = c.next + 1, !.ids = Append(c.ids, invoke_id)]

\* the call after put_object returned (ok) or raised (~ok): the error of
\* put_object propagates out of record_invoke and out of the call
AfterPut(c, ok, invoke_id) ==
    IF ok
    THEN [c EXCEPT !.next = c.next + 1, !.ids = Append(c.ids, invoke_id)]
    ELSE CallRaised(c, ClientError)

\* ModelPredictor.record_invoke for the next input of the running call
RecordInvoke ==
    /\ call.status = "running"
    /\ call.next <= Len(call.data)
    /\ \E t \in Now, ok \in BOOLEAN :
        LET invoke_id == record_invoke_id(t, uuid4(stats.uuids + 1))
            datum == call.data[call.next]
            prediction == call.predictions[call.next]
        IN /\ clock' = t
           /\ IF env.s3 = None
              THEN /\ call' = CallRaised(call, AttributeError)
                   /\ s3_log' = s3_log
              ELSE /\ call' = AfterPut(call, ok, invoke_id)
                   /\ s3_log' = Append(s3_log,
                        [req |-> PutRequest(env, datum, prediction, invoke_id),
                         ok |-> ok])
    /\ stats' = [Count(call') EXCEPT !.uuids = stats.uuids + 1]
    /\ UNCHANGED <<predictor, lifecycle, envvars, s3vars>>

\* the return of invoke / batch_invoke after every input was recorded
Return ==
    /\ call.status = "running"
    /\ call.next > Len(call.data)
    /\ call' = CallReturned(call,
                IF call.op = "invoke" THEN call.predictions[1]
                ELSE [predictions |-> call.predictions])
    /\ stats' = Count(call')
    /\ UNCHANGED <<predictor, clock, s3_log, lifecycle, envvars, s3vars>>

\* predictor.result(d), called directly
CallResult(d) ==
    /\ CanCall
    /\ LET r == result(predictor, d)
           c == [StartedCall("result", <<d>>) EXCEPT !.next = 2]
       IN call' = IF r.ok THEN CallReturned(c, r.value) ELSE CallRaised(c, r.error)
    /\ stats' = Count(call')
    /\ UNCHANGED <<predictor, clock, s3_log, lifecycle, envvars, s3vars>>

\* ModelTrainer(env).train()
Train ==
    /\ CanCall
    /\ call' = CallRaised([StartedCall("train", <<>>) EXCEPT !.next = 1],
                          train.error)
    /\ stats' = Count(call')
    /\ UNCHANGED <<predictor, clock, s3_log, lifecycle, envvars, s3vars>>

Next ==
    \/ \E d \in Data : InvokeStart(d)
    \/ \E data \in Batches : BatchInvokeStart(data)
    \/ RecordInvoke
    \/ Return
    \/ \E d \in Data : CallResult(d)
    \/ Train

Spec == Init /\ [][Next]_vars

----------------------------------------------------------------------------
(* The specification of a whole run: on a constructed environment the      *)
(* predictor calls above are interleaved with the lifecycle hooks setup()  *)
(* and teardown(), with metadata(), with the accessors of the environment  *)
(* and write_failure, and with changes made from outside to os.environ and *)
(* to hyperparameters.json.  Every operation but the steps of a running    *)
(* call counts towards the MaxCalls operations of a run.                   *)

\* ModelPredictor.setup
Setup ==
    /\ CanStart /\ Started
    /\ lifecycle' = [lifecycle EXCEPT !.setups = @ + 1]
    /\ UNCHANGED <<predictor, clock, s3_log, call, envvars, s3vars>>

\* ModelPredictor.teardown
Teardown ==
    /\ CanStart /\ Started
    /\ lifecycle' = [lifecycle EXCEPT !.teardowns = @ + 1]
    /\ UNCHANGED <<predictor, clock, s3_log, call, envvars, s3vars>>

\* predictor.metadata(), called directly
CallMetadata ==
    /\ env.status = "ok"
    /\ CanStart /\ Started
    /\ \E t \in Now :
        /\ clock' = t
        /\ env_out' = [op |-> "metadata", res |-> Returned(metadata(env, t))]
    /\ UNCHANGED <<os_environ, hp_file, rc_file, env, failure_file, s3vars,
                    predictor, s3_log, call, lifecycle>>

\* pathlib.Path(ml_folder), as the sequence of its parts
ml_folder == <<"ml">>

\* SageMakerEnv.dataset_folder: the path, and whether the deprecation
\* warning was issued
dataset_folder(dataset) ==
    [path |-> ml_folder \o <<"input", "data">>
                \o <<IF dataset = None THEN "training" ELSE Get(dataset)>>,
     warned |-> dataset # None]

\* SageMakerEnv.data_channel_folder
data_channel_folder(channel) == ml_folder \o <<"input", "data", channel>>

\* SageMakerEnv.model_folder
model_folder == ml_folder \o <<"model">>

FileNotFoundError == [type |-> "FileNotFoundError"]

\* SageMakerEnv.write_failure: open(<ml_folder>/output/failure, "w") creates
\* or truncates the file, and fails when the output folder does not exist
write_failure(file, text) ==
    IF file.state = "nodir"
    THEN [file |-> file, res |-> Raised(FileNotFoundError)]
    ELSE [file |-> [state |-> "written", text |-> text], res |-> Returned(None)]

Datasets == {None, Some("foo")}
Channels == {"foo"}
FailureTexts == {"BadModel", "no biscuit"}

\* env.dataset_folder(dataset)
CallDatasetFolder(dataset) ==
    /\ env.status = "ok"
    /\ CanStart /\ Started
    /\ env_out' = [op |-> "dataset_folder",
                   res |-> Returned(dataset_folder(dataset).path),
                   warned |-> dataset_folder(dataset).warned]
    /\ UNCHANGED <<os_environ, hp_file, rc_file, env, failure_file, s3vars,
                    predictor, clock, s3_log, call, lifecycle>>

\* env.data_channel_folder(channel)
CallDataChannelFolder(channel) ==
    /\ env.status = "ok"
    /\ CanStart /\ Started
    /\ env_out' = [op |-> "data_channel_folder",
                   res |-> Returned(data_channel_folder(channel))]
    /\ UNCHANGED <<os_environ, hp_file, rc_file, env, failure_file, s3vars,
                    predictor, clock, s3_log, call, lifecycle>>

\* env.model_folder()
CallModelFolder ==
    /\ env.status = "ok"
    /\ CanStart /\ Started
    /\ env_out' = [op |-> "model_folder", res |-> Returned(model_folder)]
    /\ UNCHANGED <<os_environ, hp_file, rc_file, env, failure_file, s3vars,
                    predictor, clock, s3_log, call, lifecycle>>

\* env.write_failure(text)
WriteFailure(text) ==
    /\ env.status = "ok"
    /\ CanStart /\ Started
    /\ failure_file' = write_failure(failure_file, text).file
    /\ env_out' = [op |-> "write_failure",
                   res |-> write_failure(failure_file, text).res]
    /\ UNCHANGED <<os_environ, hp_file, rc_file, env, s3vars,
                    predictor, clock, s3_log, call, lifecycle>>

\* <ml_folder>/output is created from outside
MkdirOutput ==
    /\ CanStart /\ Started
    /\ failure_file.state = "nodir"
    /\ failure_file' = [state |-> "absent"]
    /\ UNCHANGED <<os_environ, hp_file, rc_file, env, env_out, s3vars,
                    predictor, clock, s3_log, call, lifecycle>>

\* the dict d with d[k] = v
DictSet(d, k, v) ==
    [x \in DOMAIN d \cup {k} |-> IF x = k THEN v ELSE d[x]]

\* the dict d after del d[k]
DictDel(d, k) == [x \in DOMAIN d \ {k} |-> d[x]]

\* the settings a later os.environ[k] = v may change
NewSettings ==
    {<<"TRAINING_JOB_NAME", "job-2">>, <<"ML2P_MODEL_VERSION", "v2">>,
     <<"ML2P_RECORD_INVOKES", "false">>}

\* os.environ[k] = v, made from outside after construction
SetEnviron(k, v) ==
    /\ CanStart /\ Started
    /\ DictGet(os_environ, k) # Some(v)
    /\ os_environ' = DictSet(os_environ, k, v)
    /\ UNCHANGED <<hp_file, rc_file, env, env_out, failure_file, s3vars,
                    predictor, clock, s3_log, call, lifecycle>>

\* del os.environ[k], made from outside after construction
DelEnviron(k) ==
    /\ CanStart /\ Started
    /\ k \in DOMAIN os_environ
    /\ os_environ' = DictDel(os_environ, k)
    /\ UNCHANGED <<hp_file, rc_file, env, env_out, failure_file, s3vars,
                    predictor, clock, s3_log, call, lifecycle>>

\* a well-formed hyperparameters.json holding every setting
HpFileA ==
    [state |-> "ok",
     json |-> CHOOSE j \in HpJsons : Cardinality(DOMAIN j) = 5]

RunHpFiles == {[state |-> "missing"], HpFileA}

\* hyperparameters.json is written or removed from outside after construction
WriteHpFile ==
    /\ CanStart /\ Started
    /\ \E f \in RunHpFiles : f # hp_file /\ hp_file' = f
    /\ UNCHANGED <<os_environ, rc_file, env, env_out, failure_file, s3vars,
                    predictor, clock, s3_log, call, lifecycle>>

\* the environments of a run: SERVE with and without recording, and TRAIN
RunOsEnvirons ==
    {MkDict(o) : o \in
        {[TRAINING_JOB_NAME |-> None, ML2P_MODEL_VERSION |-> Some("v1"),
          ML2P_RECORD_INVOKES |-> Some("true"), ML2P_S3_URL |-> Some(S3UrlA)],
         [TRAINING_JOB_NAME |-> None, ML2P_MODEL_VERSION |-> None,
          ML2P_RECORD_INVOKES |-> None, ML2P_S3_URL |-> None],
         [TRAINING_JOB_NAME |-> Some("job-1"), ML2P_MODEL_VERSION |-> Some("v1"),
          ML2P_RECORD_INVOKES |-> Some("true"), ML2P_S3_URL |-> None]}}

RunInit ==
    /\ os_environ \in RunOsEnvirons
    /\ hp_file = [state |-> "missing"]
    /\ rc_file = [state |-> "missing"]
    /\ env = SageMakerEnv(os_environ, hp_file)
    /\ env_out = NoOut
    /\ failure_file = [state |-> "nodir"]
    /\ predictor \in {"base", "sub"}
    /\ clock = 0
    /\ s3_log = <<>>
    /\ call = NoCall
    /\ stats = [calls |-> 0, raised |-> 0, inputs |-> 0, uuids |-> 0]
    /\ lifecycle = [setups |-> 0, teardowns |-> 0]
    /\ S3Idle

RunNext ==
    \/ Next
    \/ Setup
    \/ Teardown
    \/ CallMetadata
    \/ CallHyperparameters
    \/ CallResourceconfig
    \/ \E dataset \in Datasets : CallDatasetFolder(dataset)
    \/ \E channel \in Channels : CallDataChannelFolder(channel)
    \/ CallModelFolder
    \/ \E text \in FailureTexts : WriteFailure(text)
    \/ MkdirOutput
    \/ \E s \in NewSettings : SetEnviron(s[1], s[2])
    \/ DelEnviron("ML2P_S3_URL")
    \/ WriteHpFile

SpecRun == RunInit /\ [][RunNext]_vars



Recording == env.status = "ok" /\ env.record_invokes = Some(TRUE)

IsInvocation(c) == c.op \in {"invoke", "batch_invoke"}

\* C1: without record_invokes no put_object call is ever made; with it, after
\* any sequence of calls that all returned, the put_object calls number the
\* inputs those calls processed, and when an invoke / batch_invoke returns,
\* one successful write per input of that call has already been made.
C1_OneWritePerInput ==
    /\ ~Recording => s3_log = <<>>
    /\ (Recording /\ stats.raised = 0 /\ call.status # "running") =>
        Len(s3_log) = stats.inputs
    /\ (Recording /\ IsInvocation(call) /\ call.status = "returned") =>
        /\ Len(s3_log) - call.start = Len(call.data)
        /\ \A k \in (call.start + 1)..Len(s3_log) : s3_log[k].ok

\* C1 witness: with recording on, an invoke and then a batch_invoke of two
\* inputs have both returned, three writes in the log
C1_Witness ==
    /\ Recording
    /\ stats.calls = 2 /\ stats.raised = 0 /\ stats.inputs = 3
    /\ call.op = "batch_invoke" /\ call.status = "returned"
    /\ Len(call.data) = 2
    /\ Len(s3_log) = 3

\* the JSON tokens toks are an object of the shape of an invocation record
IsRecordJson(toks) ==
    /\ Len(toks) = 41
    /\ <<toks[1], toks[2], toks[3]>> = <<"{", "\"input\"", ":">>
    /\ <<toks[4], toks[5], toks[6], toks[8], toks[9]>>
            = <<"{", "\"input\"", ":", "}", ",">>
    /\ <<toks[10], toks[11], toks[12]>> = <<"\"result\"", ":", "{">>
    /\ <<toks[13], toks[14], toks[15]>> = <<"\"metadata\"", ":", "{">>
    /\ <<toks[16], toks[17], toks[19]>> = <<"\"model_version\"", ":", ",">>
    /\ <<toks[20], toks[21], toks[23]>> = <<"\"ml2p_version\"", ":", ",">>
    /\ <<toks[24], toks[25], toks[27], toks[28]>>
            = <<"\"timestamp\"", ":", "}", ",">>
    /\ <<toks[29], toks[30], toks[31]>> = <<"\"result\"", ":", "{">>
    /\ <<toks[32], toks[33], toks[35]>> = <<"\"probability\"", ":", ",">>
    /\ <<toks[36], toks[37]>> = <<"\"input\"", ":">>
    /\ <<toks[39], toks[40], toks[41]>> = <<"}", "}", "}">>

\* the values the scalar tokens of a record may decode to
JsonInts == 0..9 \cup {Timestamp(t) : t \in 0..(MaxClock + 1)}
JsonStrings == {"v1", "ml2p-version", "None", "null"}

LoadsInt(tok) ==
    IF \E n \in JsonInts : ToString(n) = tok
    THEN CHOOSE n \in JsonInts : ToString(n) = tok
    ELSE -1

LoadsStr(tok) ==
    IF \E s \in JsonStrings : "\"" \o s \o "\"" = tok
    THEN CHOOSE s \in JsonStrings : "\"" \o s \o "\"" = tok
    ELSE "?"

LoadsOptStr(tok) == IF tok = "null" THEN None ELSE Some(LoadsStr(tok))

\* json.loads of the tokens of an invocation record
json_loads(toks) ==
    [input |-> [input |-> LoadsInt(toks[7])],
     result |->
        [metadata |-> [model_version |-> LoadsOptStr(toks[18]),
                       ml2p_version |-> LoadsStr(toks[22]),
                       timestamp |-> LoadsInt(toks[26])],
         result |-> [probability |-> LoadsInt(toks[34]),
                     input |-> LoadsInt(toks[38])]]]

\* the prediction the call returned, or is about to return, for its j-th input
PredictionFor(c, j) ==
    IF c.status = "returned"
    THEN IF c.op = "invoke" THEN Get(c.response)
         ELSE Get(c.response).predictions[j]
    ELSE c.predictions[j]

\* C2: every object written for an invocation has Bucket = env.s3.bucket(),
\* Key = env.s3.path("predictions/<model_version>/ts-<ts>--uuid-<uuid>.json")
\* (the id entries rendered key-value, in order, joined by "--"; the model
\* version rendered as text), and a body that decodes to {"input": I,
\* "result": P}, I the input and P the {metadata, result} prediction returned
\* for it.
C2_RecordedObject ==
    IsInvocation(call) =>
        \A j \in 1..Len(call.ids) :
            LET put == s3_log[call.start + j]
                id == call.ids[j]
            IN /\ put.ok
               /\ Len(id) = 2 /\ id[1][1] = "ts" /\ id[2][1] = "uuid"
               /\ put.req.Bucket = S3Bucket(Get(env.s3))
               /\ put.req.Key = S3Path(Get(env.s3),
                    <<"predictions", "/", Format(env.model_version), "/",
                      "ts", "-", id[1][2], "--", "uuid", "-", id[2][2],
                      ".json">>)
               /\ IsRecordJson(put.req.Body)
               /\ json_loads(put.req.Body)
                    = [input |-> call.data[j], result |-> PredictionFor(call, j)]

\* C2 witness: a batch_invoke of two inputs has returned with both recorded,
\* the clock having moved between the metadata and the second record
C2_Witness ==
    /\ call.op = "batch_invoke" /\ call.status = "returned"
    /\ Len(call.ids) = 2
    /\ env.model_version # None
    /\ call.ids[2][1][2] = IsoFormat(1)
    /\ Get(call.response).predictions[2].metadata.timestamp = Timestamp(0)

C8_WriteFailurePropagates ==
    /\ \A k \in (call.start + 1)..Len(s3_log) :
        ~s3_log[k].ok =>
            /\ k = Len(s3_log)
            /\ call.status = "raised"
            /\ call.error = Some([type |-> "ClientError", msg |-> "PutObject failed"])
            /\ call.response = None
            /\ Len(call.predictions) = Len(call.data)
    /\ (call.status = "raised" /\ call.error = Some(ClientError)) =>
        /\ Len(s3_log) > call.start
        /\ ~s3_log[Len(s3_log)].ok

\* C8 witness: a batch_invoke of two inputs wrote the first record and failed
\* on the second
C8_Witness ==
    /\ call.op = "batch_invoke" /\ call.status = "raised"
    /\ call.error = Some(ClientError)
    /\ Len(call.data) = 2
    /\ Len(s3_log) = call.start + 2
    /\ s3_log[call.start + 1].ok /\ ~s3_log[call.start + 2].ok

\* C9: on a base ModelPredictor, invoke, batch_invoke of a non-empty list and
\* result all raise NotImplementedError("Sub-classes should implement
\* .result(...)") and nothing is written, also with record_invokes on; train()
\* of the base ModelTrainer raises NotImplementedError("Sub-classes should
\* implement .train()").
C9_BaseClassesNotImplemented ==
    /\ predictor = "base" =>
        /\ s3_log = <<>>
        /\ (\/ call.op \in {"invoke", "result"}
            \/ call.op = "batch_invoke" /\ call.data # <<>>) =>
                /\ call.status = "raised"
                /\ call.response = None
                /\ call.error = Some([type |-> "NotImplementedError",
                        msg |-> "Sub-classes should implement .result(...)"])
    /\ call.op = "train" =>
        /\ call.status = "raised"
        /\ call.response = None
        /\ call.error = Some([type |-> "NotImplementedError",
                              msg |-> "Sub-classes should implement .train()"])

\* C9 witness: on a base predictor with recording on and an S3 location set,
\* a second call, a batch_invoke of two inputs, has raised
C9_Witness ==
    /\ predictor = "base"
    /\ Recording /\ env.s3 # None
    /\ stats.calls = 2
    /\ call.op = "batch_invoke" /\ Len(call.data) = 2
    /\ call.status = "raised"


\* C11: a SERVE environment built with ML2P_MODEL_VERSION unset has
\* model_version "Unknown"; built with it set, model_version is its value.
C11_ModelVersionDefaultsToUnknown ==
    (env.status = "ok" /\ "TRAINING_JOB_NAME" \notin DOMAIN os_environ) =>
        env.model_version =
            IF "ML2P_MODEL_VERSION" \in DOMAIN os_environ
            THEN Some(os_environ["ML2P_MODEL_VERSION"])
            ELSE Some("Unknown")

\* C14: with record_invokes on and no S3 location (env.s3 None), nothing is
\* ever written, and every invoke and every non-empty batch_invoke of a
\* predictor that implements result computes its results and then raises in
\* record_invoke, before any put_object, returning no prediction.
C14_RecordingWithoutS3Fails ==
    (Recording /\ env.s3 = None) =>
        /\ s3_log = <<>>
        /\ env.env_type = SERVE
        /\ (predictor = "sub" /\ IsInvocation(call) /\ call.data # <<>>) =>
            /\ Len(call.predictions) = Len(call.data)
            /\ \A i \in 1..Len(call.data) :
                call.predictions[i].result
                    = [probability |-> 5, input |-> call.data[i].input]
            /\ call.response = None
            /\ call.ids = <<>>
            /\ call.status \in {"running", "raised"}
            /\ call.status = "running" => call.next = 1
            /\ call.status = "raised" =>
                call.error = Some([type |-> "AttributeError",
                                   msg |-> "NoneType has no attribute path"])

\* C14 witness: with recording on and no S3 location, a batch_invoke of two
\* inputs has raised after an invoke raised
C14_Witness ==
    /\ Recording /\ env.s3 = None
    /\ predictor = "sub"
    /\ call.op = "batch_invoke" /\ Len(call.data) = 2
    /\ call.status = "raised"
    /\ stats.calls = 2 /\ stats.raised = 2 /\ stats.uuids = 2

\* the result part of the prediction made for each input of call c
ResultsOf(c) ==
    IF c.op = "invoke" THEN <<Get(c.response).result>>
    ELSE [i \in 1..Len(c.data) |-> Get(c.response).predictions[i].result]

\* how a finished invoke / batch_invoke ended, whatever hooks were run
OutcomeByPredictorAndInput ==
    (IsInvocation(call) /\ call.status # "running" /\ call.data # <<>>) =>
        /\ predictor = "base" =>
            /\ call.status = "raised"
            /\ call.error = Some([type |-> "NotImplementedError",
                                  msg |-> "Sub-classes should implement .result(...)"])
        /\ (predictor = "sub" /\ ~Recording) => call.status = "returned"
        /\ call.status = "returned" =>
            ResultsOf(call) = [i \in 1..Len(call.data) |->
                                [probability |-> 5, input |-> call.data[i].input]]

\* invoke and batch_invoke can be started with any input exactly when no
\* call is running and the run has an operation left: the hooks run so far
\* play no part
NoGuardOnInvoke ==
    /\ \A d \in Data :
        ENABLED InvokeStart(d)
            <=> (call.status # "running" /\ stats.calls < MaxCalls)
    /\ \A data \in Batches :
        ENABLED BatchInvokeStart(data)
            <=> (call.status # "running" /\ stats.calls < MaxCalls)

\* C12: setup() and teardown() change nothing of the predictor, the
\* environment, the clock, the S3 log or the files; and invoke and
\* batch_invoke can be called exactly when a call can be made at all, and end
\* as the predictor class and the input decide, however often (if ever)
\* setup() and teardown() have been called before.  (A hook can be run in
\* every state where an operation can be started, so the states before a
\* hook are all the states where invoke could be refused.)
C12_NoLifecycleGuard ==
    [][/\ lifecycle' # lifecycle =>
            /\ UNCHANGED <<env, predictor, clock, s3_log, call, env_out,
                           os_environ, hp_file, rc_file, failure_file, s3vars>>
            /\ NoGuardOnInvoke
       /\ OutcomeByPredictorAndInput']_vars

\* C12 witness: an invocation has returned although setup() was never called
\* and teardown() already was
C12_Witness ==
    /\ IsInvocation(call) /\ call.status = "returned"
    /\ lifecycle.setups = 0 /\ lifecycle.teardowns = 1

EnvFields ==
    {"env_type", "project", "model_cls", "s3", "training_job_name",
     "model_version", "record_invokes"}

\* the response of a returned invoke / batch_invoke is made of its own
\* inputs, the fields of the environment and one reading of the clock
ResponseFromOwnInput ==
    (IsInvocation(call) /\ call.status = "returned") =>
        \E t \in 0..clock :
            LET p(i) == [metadata |-> metadata(env, t),
                         result |-> [probability |-> 5,
                                     input |-> call.data[i].input]]
            IN call.response =
                IF call.op = "invoke" THEN Some(p(1))
                ELSE Some([predictions |-> [i \in 1..Len(call.data) |-> p(i)]])

\* C13: no step of a run (a call on the predictor, a hook, metadata, an
\* accessor of the environment, write_failure, or a change of os.environ or
\* of hyperparameters.json) changes a field of the constructed environment,
\* and every response is made of the call's own inputs, those fields and the
\* clock.
C13_EnvironmentFixedAfterConstruction ==
    [][/\ env.status = "ok" /\ env'.status = "ok"
       /\ \A f \in EnvFields : env'[f] = env[f]
       /\ ResponseFromOwnInput'
       /\ Recording' =>
            \A i \in 1..Len(s3_log') :
                s3_log'[i].req.Bucket = S3Bucket(Get(env.s3))]_vars

\* C13 witness: ML2P_MODEL_VERSION was changed in os.environ after
\* construction, the environment still holds the old value and an invoke
\* returned it in its metadata
C13_Witness ==
    /\ DictGet(os_environ, "ML2P_MODEL_VERSION") = Some("v2")
    /\ env.model_version = Some("v1")
    /\ call.op = "invoke" /\ call.status = "returned"
    /\ Get(call.response).metadata.model_version = Some("v1")

====
